---- MODULE Spec2Model ----
(***************************************************************************)
(* Poseidon hash over a prime field (package poseidon, poseidon.go).        *)
(*                                                                         *)
(* The model is a scaled copy of the program: the field modulus Q stands   *)
(* for the BN254 scalar prime, a "byte" ranges over 0..ByteBase-1 and a    *)
(* sponge chunk holds spongeChunkSize bytes, chosen so that, as in the     *)
(* program (256^31 < p < 256^32), every chunk value is below the modulus   *)
(* and every field element fits in spongeChunkSize+1 bytes.  The round     *)
(* numbers NROUNDSF and NROUNDSP and the frame sizes are the program's.    *)
(***************************************************************************)
EXTENDS Integers, Sequences, FiniteSets, TLC

(***************************************************************************)
(* Bounds of the model.                                                    *)
(***************************************************************************)
\* a byte is a digit in 0..ByteBase-1
ByteBase == 4
\* the generators (seeds) of the states and input values the initial states
\* draw from: 1..NumSeeds
NumSeeds == 1
\* the sponges' inputs span at most MaxFrames full frames plus one value
MaxFrames == 2

(***************************************************************************)
(* Program constants.                                                      *)
(***************************************************************************)
\* poseidon.go:13
NROUNDSF == 8
\* poseidon.go:16
NROUNDSP == <<56, 57, 56, 60, 60, 63, 64, 63, 60, 66, 60, 65, 70, 60, 64, 68>>
\* poseidon.go:18: 31 in the program; scaled with Q, keeping
\* ByteBase^spongeChunkSize < Q as 256^31 < p
spongeChunkSize == 3
\* poseidon.go:19
spongeInputs == 16
\* the modulus of ff.Element, the BN254 scalar prime p in the program; scaled
Q == 239

\* the Go nil error, and the errors returned by this package
NoErr == "nil"
ErrInputsLength == "invalid inputs length"
ErrInputsNotInField == "inputs values not inside Finite Field"
ErrNOuts == "invalid nOuts"
ErrInitState == "initState values not inside Finite Field"
ErrFrameSize == "incorrect frame size"
\* a nil *big.Int; a non-nil one holding v is <<v>>
Nil == <<>>

(***************************************************************************)
(* ff.Element: residues modulo Q.                                          *)
(***************************************************************************)
FAdd(a, b) == (a + b) % Q
FMul(a, b) == (a * b) % Q
\* ff.Element.SetBigInt: reduce a big integer into the field
SetBigInt(v) == v % Q

\* utils.CheckBigIntInField
CheckBigIntInField(a) == a < Q
\* utils.CheckBigIntArrayInField
CheckBigIntArrayInField(arr) == \A i \in DOMAIN arr : CheckBigIntInField(arr[i])

\* big.Int.SetBytes: the big-endian integer of a byte string
RECURSIVE SetBytes(_)
SetBytes(b) ==
  IF Len(b) = 0 THEN 0
  ELSE SetBytes(SubSeq(b, 1, Len(b) - 1)) * ByteBase + b[Len(b)]
\* ff.Element.SetBytesLessMod: the big-endian value of b, as a field element
SetBytesLessMod(b) == SetBigInt(SetBytes(b))
\* ff.Element.Bytes: the big-endian encoding of an element on a fixed
\* number of bytes (32 in the program, spongeChunkSize+1 here)
ElementBytes == spongeChunkSize + 1
RECURSIVE Pow(_, _)
Pow(b, e) == IF e = 0 THEN 1 ELSE b * Pow(b, e - 1)
Bytes(e) == [d \in 1..ElementBytes |-> (e \div Pow(ByteBase, ElementBytes - d)) % ByteBase]

\* n zeros
Zeros(n) == [j \in 1..n |-> 0]

(***************************************************************************)
(* The constant tables c.c, c.s, c.m, c.p, addressed by t-2.  Their sizes  *)
(* are the documented ones; their entries are fixed reduced field elements.*)
(* Tables are indexed from 0, as in the program.                           *)
(***************************************************************************)
\* nRoundsP := NROUNDSP[t-2] (line 75)
nRoundsP(t) == NROUNDSP[t - 1]
CLen(t) == t * (NROUNDSF + 1) + nRoundsP(t)
SLen(t) == (2 * t - 1) * nRoundsP(t)
c_c(t) == [i \in 0..(CLen(t) - 1) |-> (7 * i * i + 13 * t + 3 * i + 1) % Q]
c_s(t) == [i \in 0..(SLen(t) - 1) |-> (5 * i * i + 11 * t + i + 2) % Q]
c_m(t) == [j \in 0..(t - 1) |->
             [i \in 0..(t - 1) |-> (3 * i * i + 17 * j + i * j + t + 1) % Q]]
c_p(t) == [j \in 0..(t - 1) |->
             [i \in 0..(t - 1) |-> (2 * i + 19 * j * j + 5 * i * j + t + 3) % Q]]

(***************************************************************************)
(* The permutation's building blocks.  A state is a sequence of t field    *)
(* elements; slot i of the program is element i+1 of the sequence.         *)
(***************************************************************************)
\* exp5: a^5 by a.Exp(a, 5)
exp5(a) == FMul(FMul(FMul(a, a), FMul(a, a)), a)

\* exp5state: lines 34-38, in place
RECURSIVE exp5stateLoop(_, _)
exp5stateLoop(state, i) ==
  IF i >= Len(state) THEN state
  ELSE exp5stateLoop([state EXCEPT ![i + 1] = exp5(state[i + 1])], i + 1)
exp5state(state) == exp5stateLoop(state, 0)

\* the index of c that ark reads for slot i (line 43)
arkIdx(it, i) == it + i
\* ark: lines 41-45, in place
RECURSIVE arkLoop(_, _, _, _)
arkLoop(state, c, it, i) ==
  IF i >= Len(state) THEN state
  ELSE arkLoop([state EXCEPT ![i + 1] = FAdd(state[i + 1], c[arkIdx(it, i)])],
               c, it, i + 1)
ark(state, c, it) == arkLoop(state, c, it, 0)

\* lines 51-54: the sum over j in lo..hi-1 of m[j][i] * state[j], which
\* scratch[i] accumulates (the range is split in halves; addition in the
\* field is associative)
RECURSIVE mixAcc(_, _, _, _, _)
mixAcc(state, m, i, lo, hi) ==
  IF hi <= lo THEN 0
  ELSE IF hi = lo + 1 THEN FMul(m[lo][i], state[lo + 1])
  ELSE FAdd(mixAcc(state, m, i, lo, (lo + hi) \div 2),
            mixAcc(state, m, i, (lo + hi) \div 2, hi))
\* lines 50-55: the scratch vector, filled slot by slot from state
RECURSIVE mixScratchLoop(_, _, _, _)
mixScratchLoop(state, m, scratch, i) ==
  IF i >= Len(scratch) THEN scratch
  ELSE mixScratchLoop(state, m,
                      [scratch EXCEPT ![i + 1] = mixAcc(state, m, i, 0, Len(state))],
                      i + 1)
\* mixWithScratch: lines 49-60; every slot of state is set from scratch,
\* whose earlier contents are overwritten before they are read
mixWithScratch(state, m) == mixScratchLoop(state, m, state, 0)

\* a variant of HalfRounds: one round more in each half
HalfRoundsBad == NROUNDSF \div 2
\* nRoundsF/2-1 (lines 83, 108)
HalfRounds == NROUNDSF \div 2 - 1
\* line 85
FirstHalfOffset(t, i) == (i + 1) * t
\* line 89
TransitionOffset(t) == (NROUNDSF \div 2) * t
\* line 95
PartialCIdx(t, i) == (NROUNDSF \div 2 + 1) * t + i
\* line 99
SRowIdx(t, i, j) == (t * 2 - 1) * i + j
\* line 103
SColIdx(t, i, k) == (t * 2 - 1) * i + t + k - 1
\* a variant of SecondHalfOffset: the partial rounds' constants not skipped
SecondHalfOffsetBad(t, i) == (NROUNDSF \div 2 + 1) * t + i * t
\* line 110
SecondHalfOffset(t, i) == (NROUNDSF \div 2 + 1) * t + nRoundsP(t) + i * t

\* one full round (S-box, ARK, mix): lines 84-86, 88-90, 109-111
FullRound(state, it, m) ==
  mixWithScratch(ark(exp5state(state), c_c(Len(state)), it), m)

\* lines 94-95: S-box and round constant on slot 0
PartialSbox(state, i) ==
  [state EXCEPT ![1] = FAdd(exp5(state[1]),
                            c_c(Len(state))[PartialCIdx(Len(state), i)])]

\* lines 97-100: the sum over j in lo..hi-1 of S[(2t-1)i+j] * state[j],
\* which newState0 accumulates
RECURSIVE newState0Acc(_, _, _, _)
newState0Acc(state, i, lo, hi) ==
  IF hi <= lo THEN 0
  ELSE IF hi = lo + 1
    THEN FMul(c_s(Len(state))[SRowIdx(Len(state), i, lo)], state[lo + 1])
  ELSE FAdd(newState0Acc(state, i, lo, (lo + hi) \div 2),
            newState0Acc(state, i, (lo + hi) \div 2, hi))

\* lines 102-104: the fan-out loop, in place, reading state[0] at each k
RECURSIVE fanOut(_, _, _)
fanOut(state, i, k) ==
  IF k >= Len(state) THEN state
  ELSE fanOut([state EXCEPT ![k + 1] =
                 FAdd(state[k + 1],
                      FMul(state[1], c_s(Len(state))[SColIdx(Len(state), i, k)]))],
              i, k + 1)

\* a variant of PartialRound: state[0] is overwritten before the fan-out
PartialRoundBad(state, i) ==
  LET s == PartialSbox(state, i)
      newState0 == newState0Acc(s, i, 0, Len(s))
  IN fanOut([s EXCEPT ![1] = newState0], i, 1)
\* lines 94-105: one partial round; state[0] is set from newState0 last
PartialRound(state, i) ==
  LET s == PartialSbox(state, i)
      newState0 == newState0Acc(s, i, 0, Len(s))
      fanned == fanOut(s, i, 1)
  IN [fanned EXCEPT ![1] = newState0]

\* lines 83-87
RECURSIVE firstHalf(_, _)
firstHalf(state, i) ==
  IF i >= HalfRounds THEN state
  ELSE firstHalf(FullRound(state, FirstHalfOffset(Len(state), i), c_m(Len(state))),
                 i + 1)

\* lines 93-106: the partial rounds lo..hi-1 of the nRoundsP rounds, in
\* order (the range is split in halves, which keeps the evaluation shallow)
RECURSIVE partialRounds(_, _, _)
partialRounds(state, lo, hi) ==
  IF hi > nRoundsP(Len(state)) \/ hi <= lo THEN state
  ELSE IF hi = lo + 1 THEN PartialRound(state, lo)
  ELSE partialRounds(partialRounds(state, lo, (lo + hi) \div 2), (lo + hi) \div 2, hi)

\* lines 108-112
RECURSIVE secondHalf(_, _)
secondHalf(state, i) ==
  IF i >= HalfRounds THEN state
  ELSE secondHalf(FullRound(state, SecondHalfOffset(Len(state), i), c_m(Len(state))),
                  i + 1)

\* lines 113-114: the last S-box and mix, without round constants
FinalRound(state) == mixWithScratch(exp5state(state), c_m(Len(state)))

\* hashElements: lines 72-116
hashElements(state) ==
  LET t == Len(state)
      s1 == ark(state, c_c(t), 0)
      s2 == firstHalf(s1, 0)
      s3 == FullRound(s2, TransitionOffset(t), c_p(t))
      s4 == partialRounds(s3, 0, nRoundsP(t))
      s5 == secondHalf(s4, 0)
  IN FinalRound(s5)

(***************************************************************************)
(* The fixed-input hashes.  A result is a record of the returned values    *)
(* and the returned error.                                                 *)
(***************************************************************************)
\* hashWithStateExBytes: lines 121-129
hashWithStateExBytes(state) ==
  IF Len(state) = 1 \/ Len(state) - 1 > Len(NROUNDSP)
  THEN [hash |-> Nil, err |-> ErrInputsLength]
  ELSE [hash |-> <<hashElements(state)[1]>>, err |-> NoErr]

\* a variant of HashWithStateEx: the length test is off by one
HashWithStateExBad(inpBI, initState, nOuts) ==
  LET t == Len(inpBI) + 1
  IN IF Len(inpBI) = 0 \/ Len(inpBI) >= Len(NROUNDSP)
       THEN [out |-> <<>>, err |-> ErrInputsLength]
     ELSE IF ~CheckBigIntArrayInField(inpBI)
       THEN [out |-> <<>>, err |-> ErrInputsNotInField]
     ELSE IF nOuts < 1 \/ nOuts > t
       THEN [out |-> <<>>, err |-> ErrNOuts]
     ELSE IF ~CheckBigIntInField(initState)
       THEN [out |-> <<>>, err |-> ErrInitState]
     ELSE [out |-> SubSeq(hashElements(<<SetBigInt(initState)>>
                                       \o [j \in 1..Len(inpBI) |-> SetBigInt(inpBI[j])]),
                          1, nOuts),
           err |-> NoErr]

\* HashWithStateEx: lines 131-166
HashWithStateEx(inpBI, initState, nOuts) ==
  LET t == Len(inpBI) + 1
  IN IF Len(inpBI) = 0 \/ Len(inpBI) > Len(NROUNDSP)
       THEN [out |-> <<>>, err |-> ErrInputsLength]
     ELSE IF ~CheckBigIntArrayInField(inpBI)
       THEN [out |-> <<>>, err |-> ErrInputsNotInField]
     ELSE IF nOuts < 1 \/ nOuts > t
       THEN [out |-> <<>>, err |-> ErrNOuts]
     ELSE IF ~CheckBigIntInField(initState)
       THEN [out |-> <<>>, err |-> ErrInitState]
     ELSE [out |-> SubSeq(hashElements(<<SetBigInt(initState)>>
                                       \o [j \in 1..Len(inpBI) |-> SetBigInt(inpBI[j])]),
                          1, nOuts),
           err |-> NoErr]

\* HashWithState: lines 63-69
HashWithState(inpBI, initState) ==
  LET res == HashWithStateEx(inpBI, initState, 1)
  IN IF res.err # NoErr THEN [hash |-> Nil, err |-> res.err]
     ELSE [hash |-> <<res.out[1]>>, err |-> NoErr]

\* Hash: lines 169-171
Hash(inpBI) == HashWithState(inpBI, 0)

\* HashEx: lines 175-177
HashEx(inpBI, nOuts) == HashWithStateEx(inpBI, 0, nOuts)

(***************************************************************************)
(* The sponges.  The locals of a running sponge are a record; perms counts *)
(* the permutations run so far and stale tells that a frame slot was       *)
(* written after the last permutation (both only observe the run).         *)
(***************************************************************************)
\* lines 308-310, 246-248, 187-189
FrameSizeOk(frameSize) == ~(frameSize < 2 \/ frameSize > 16)

\* SpongeHashX, lines 313-321
SpongeInit(frameSize) ==
  [frame |-> Zeros(frameSize), k |-> 0, dirty |-> FALSE, hash |-> Nil,
   err |-> NoErr, perms |-> 0, stale |-> FALSE]

\* a variant of SpongeAbsorb: dirty is not set by a write that fills no frame
SpongeAbsorbNoDirty(loc, v, frameSize) ==
  LET frame == [loc.frame EXCEPT ![loc.k + 1] = v]
      h == Hash(frame)
  IN IF loc.k = frameSize - 1
       THEN IF h.err # NoErr
              THEN [loc EXCEPT !.frame = frame, !.dirty = FALSE, !.hash = Nil,
                               !.err = h.err, !.stale = TRUE]
              ELSE [frame |-> h.hash \o Zeros(frameSize - 1), k |-> 1,
                    dirty |-> FALSE, hash |-> h.hash, err |-> NoErr,
                    perms |-> loc.perms + 1, stale |-> FALSE]
       ELSE [loc EXCEPT !.frame = frame, !.k = loc.k + 1, !.stale = TRUE]

\* a variant of SpongeAbsorb: the new frame does not carry the digest
SpongeAbsorbNoChain(loc, v, frameSize) ==
  LET frame == [loc.frame EXCEPT ![loc.k + 1] = v]
      h == Hash(frame)
  IN IF loc.k = frameSize - 1
       THEN IF h.err # NoErr
              THEN [loc EXCEPT !.frame = frame, !.dirty = FALSE, !.hash = Nil,
                               !.err = h.err, !.stale = TRUE]
              ELSE [frame |-> Zeros(frameSize), k |-> 1,
                    dirty |-> FALSE, hash |-> h.hash, err |-> NoErr,
                    perms |-> loc.perms + 1, stale |-> FALSE]
       ELSE [loc EXCEPT !.frame = frame, !.k = loc.k + 1, !.dirty = TRUE,
                        !.stale = TRUE]

\* SpongeHashX, lines 323-339: the loop body for input value v
SpongeAbsorb(loc, v, frameSize) ==
  LET frame == [loc.frame EXCEPT ![loc.k + 1] = v]
      h == Hash(frame)
  IN IF loc.k = frameSize - 1
       THEN IF h.err # NoErr
              THEN [loc EXCEPT !.frame = frame, !.dirty = FALSE, !.hash = Nil,
                               !.err = h.err, !.stale = TRUE]
              ELSE [frame |-> h.hash \o Zeros(frameSize - 1), k |-> 1,
                    dirty |-> FALSE, hash |-> h.hash, err |-> NoErr,
                    perms |-> loc.perms + 1, stale |-> FALSE]
       ELSE [loc EXCEPT !.frame = frame, !.k = loc.k + 1, !.dirty = TRUE,
                        !.stale = TRUE]

\* a variant of SpongeFinish: the frame is hashed whether dirty or not
SpongeFinishAlways(loc) ==
  LET h == Hash(loc.frame)
  IN IF loc.err # NoErr THEN [loc EXCEPT !.hash = Nil]
     ELSE IF h.err # NoErr
       THEN [loc EXCEPT !.hash = Nil, !.err = h.err]
       ELSE [loc EXCEPT !.hash = h.hash, !.perms = loc.perms + 1, !.stale = FALSE]

\* SpongeHashX, lines 342-350: the hash of a dirty frame, and the return
SpongeFinish(loc) ==
  LET h == Hash(loc.frame)
  IN IF loc.err # NoErr THEN [loc EXCEPT !.hash = Nil]
     ELSE IF loc.dirty
       THEN IF h.err # NoErr
              THEN [loc EXCEPT !.hash = Nil, !.err = h.err]
              ELSE [loc EXCEPT !.hash = h.hash, !.perms = loc.perms + 1,
                               !.stale = FALSE]
     ELSE loc

\* the i-th (from 0) full chunk of msg: msg[spongeChunkSize*i : spongeChunkSize*(i+1)]
FullChunk(msg, i) == SubSeq(msg, spongeChunkSize * i + 1, spongeChunkSize * (i + 1))
\* lines 226-227, 284-285: buf, the rest of msg after its full chunks copied
\* into spongeChunkSize zero bytes
TailBuf(msg) ==
  LET rest == SubSeq(msg, (Len(msg) \div spongeChunkSize) * spongeChunkSize + 1, Len(msg))
  IN [j \in 1..spongeChunkSize |-> IF j <= Len(rest) THEN rest[j] ELSE 0]

\* HashBytesX, lines 251-259
BytesInit(frameSize) ==
  [frame |-> Zeros(frameSize), k |-> 0, dirty |-> FALSE, hash |-> Nil,
   err |-> NoErr, perms |-> 0, stale |-> FALSE]

\* HashBytesX, lines 261-277: the loop body for the full chunk b
BytesAbsorb(loc, b, frameSize) ==
  LET inputs == [loc.frame EXCEPT ![loc.k + 1] = SetBytes(b)]
      h == Hash(inputs)
  IN IF loc.k = frameSize - 1
       THEN IF h.err # NoErr
              THEN [loc EXCEPT !.frame = inputs, !.dirty = FALSE, !.hash = Nil,
                               !.err = h.err, !.stale = TRUE]
              ELSE [frame |-> h.hash \o Zeros(frameSize - 1), k |-> 1,
                    dirty |-> FALSE, hash |-> h.hash, err |-> NoErr,
                    perms |-> loc.perms + 1, stale |-> FALSE]
       ELSE [loc EXCEPT !.frame = inputs, !.k = loc.k + 1, !.dirty = TRUE,
                        !.stale = TRUE]

\* a variant of BytesTail: the short chunk is not padded with zero bytes
BytesTailNoPad(loc, msg) ==
  IF Len(msg) % spongeChunkSize # 0
  THEN [loc EXCEPT !.frame = [loc.frame EXCEPT ![loc.k + 1] =
          SetBytes(SubSeq(msg, (Len(msg) \div spongeChunkSize) * spongeChunkSize + 1,
                          Len(msg)))],
                   !.dirty = TRUE, !.stale = TRUE]
  ELSE loc

\* HashBytesX, lines 280-288: the last, short chunk
BytesTail(loc, msg) ==
  IF Len(msg) % spongeChunkSize # 0
  THEN [loc EXCEPT !.frame = [loc.frame EXCEPT ![loc.k + 1] = SetBytes(TailBuf(msg))],
                   !.dirty = TRUE, !.stale = TRUE]
  ELSE loc

\* HashBytesX, lines 290-298
BytesFinish(loc) ==
  LET h == Hash(loc.frame)
  IN IF loc.err # NoErr THEN [loc EXCEPT !.hash = Nil]
     ELSE IF loc.dirty
       THEN IF h.err # NoErr
              THEN [loc EXCEPT !.hash = Nil, !.err = h.err]
              ELSE [loc EXCEPT !.hash = h.hash, !.perms = loc.perms + 1,
                               !.stale = FALSE]
     ELSE loc

\* HashBytesXLessAlloc, lines 191-201: state has frameSize+1 zero elements;
\* the field frame holds state, the field hash holds <<currentHash>>
LessInit(frameSize) ==
  [frame |-> Zeros(frameSize + 1), k |-> 0, dirty |-> FALSE, hash |-> <<0>>,
   err |-> NoErr, perms |-> 0, stale |-> FALSE]

\* HashBytesXLessAlloc, lines 203-219: the loop body for the full chunk b
LessAbsorb(loc, b, frameSize) ==
  LET state == [loc.frame EXCEPT ![loc.k + 1] = SetBytesLessMod(b)]
      h == hashWithStateExBytes(state)
  IN IF loc.k = frameSize - 1
       THEN IF h.err # NoErr
              THEN [loc EXCEPT !.frame = state, !.dirty = TRUE, !.err = h.err,
                               !.stale = TRUE]
              ELSE [frame |-> h.hash \o Zeros(Len(state) - 1), k |-> 1,
                    dirty |-> FALSE, hash |-> h.hash, err |-> NoErr,
                    perms |-> loc.perms + 1, stale |-> FALSE]
       ELSE [loc EXCEPT !.frame = state, !.k = loc.k + 1, !.dirty = TRUE,
                        !.stale = TRUE]

\* HashBytesXLessAlloc, lines 222-229: the last, short chunk
LessTail(loc, msg) ==
  IF Len(msg) % spongeChunkSize # 0
  THEN [loc EXCEPT !.frame = [loc.frame EXCEPT ![loc.k + 1] =
                                SetBytesLessMod(TailBuf(msg))],
                   !.stale = TRUE]
  ELSE loc

\* HashBytesXLessAlloc, lines 231-242: the returned bytes are in the field hash
LessFinish(loc) ==
  LET h == hashWithStateExBytes(loc.frame)
  IN IF loc.err # NoErr THEN [loc EXCEPT !.hash = Nil]
     ELSE IF loc.dirty
       THEN IF h.err # NoErr
              THEN [loc EXCEPT !.hash = Nil, !.err = h.err]
              ELSE [loc EXCEPT !.hash = Bytes(h.hash[1]), !.perms = loc.perms + 1,
                               !.stale = FALSE]
     ELSE [loc EXCEPT !.hash = Bytes(loc.hash[1])]

(***************************************************************************)
(* State.                                                                  *)
(*                                                                         *)
(* One call of hashElements, statement by statement:                       *)
(*   pIn     the state the call was given                                  *)
(*   pState  the state slots                                               *)
(*   pPc     the statement to run next                                     *)
(*   pI      the loop counter i                                            *)
(*   pMid    for the last partial round run: its index i, the state before *)
(*           it (pre) and the state right after its lines 94-95 (s)        *)
(*   ops     the operations performed so far, in order                     *)
(*   cLog    the indices of C read so far, in order                        *)
(*   sLog    the indices of S read so far, in order                        *)
(* One call of HashWithStateEx:                                            *)
(*   exIn    the arguments                                                 *)
(*   exOut   the result, once the call has returned                        *)
(* The sponges, run one after the other on the same input:                 *)
(*   frameSize, inputs, msg   the arguments                                *)
(*   fn      the function running                                          *)
(*   pc      the statement it runs next                                    *)
(*   i       its loop counter                                              *)
(*   loc     its locals                                                    *)
(*   rets    what each function returned                                   *)
(***************************************************************************)
VARIABLES pIn, pState, pPc, pI, pMid, ops, cLog, sLog,
          exIn, exOut,
          frameSize, inputs, msg, fn, pc, i, loc, rets

permVars == <<pIn, pState, pPc, pI, pMid, ops, cLog, sLog>>
exVars == <<exIn, exOut>>
spongeVars == <<frameSize, inputs, msg, fn, pc, i, loc, rets>>
vars == <<permVars, exVars, spongeVars>>

\* the values of a machine that is not running
NoMid == [i |-> 0, pre |-> <<>>, s |-> <<>>]
PermIdle ==
  /\ pIn = <<>> /\ pState = <<>> /\ pPc = "idle" /\ pI = 0 /\ pMid = NoMid
  /\ ops = <<>> /\ cLog = <<>> /\ sLog = <<>>
ExIdle == exIn = [inpBI |-> <<>>, initState |-> 0, nOuts |-> 0, api |-> "idle"]
          /\ exOut = [done |-> FALSE, out |-> <<>>, err |-> NoErr]
NoRet == [done |-> FALSE, hash |-> Nil, err |-> NoErr, perms |-> 0, stale |-> FALSE]
SpongeIdle ==
  /\ frameSize = 0 /\ inputs = <<>> /\ msg = <<>> /\ fn = "idle" /\ pc = "idle"
  /\ i = 0 /\ loc = SpongeInit(0)
  /\ rets = [SpongeHashX |-> NoRet, HashBytesX |-> NoRet, HashBytesXLessAlloc |-> NoRet]

(***************************************************************************)
(* hashElements, statement by statement.                                   *)
(***************************************************************************)
\* the widths t = len(state) the tables exist for
Widths == 2..(Len(NROUNDSP) + 1)
\* a state of width t to start from
StateGen(seed, t) == [j \in 1..t |-> (seed * 29 + 5 * j * j + j) % Q]

\* the indices of C read by ark(state, C, it), in order (lines 42-44)
arkReads(t, it) == [j \in 1..t |-> arkIdx(it, j - 1)]
\* the indices of S read by lines 98-104 of partial round r, in order
sparseReads(t, r) ==
  [j \in 1..t |-> SRowIdx(t, r, j - 1)] \o [k \in 1..(t - 1) |-> SColIdx(t, r, k)]

PermInit ==
  /\ \E t \in Widths, seed \in 1..NumSeeds : pIn = StateGen(seed, t)
  /\ pState = pIn
  /\ pPc = "ark" /\ pI = 0 /\ pMid = NoMid
  /\ ops = <<>> /\ cLog = <<>> /\ sLog = <<>>
  /\ ExIdle /\ SpongeIdle

\* line 81
InitialArk ==
  /\ pPc = "ark"
  /\ pState' = ark(pState, c_c(Len(pState)), 0)
  /\ ops' = Append(ops, "ark")
  /\ cLog' = cLog \o arkReads(Len(pState), 0)
  /\ pI' = 0
  /\ pPc' = IF 0 < HalfRounds THEN "first_sbox" ELSE "trans_sbox"
  /\ UNCHANGED <<pIn, pMid, sLog, exVars, spongeVars>>

\* line 84
FirstHalfSbox ==
  /\ pPc = "first_sbox"
  /\ pState' = exp5state(pState)
  /\ ops' = Append(ops, "sbox")
  /\ pPc' = "first_ark"
  /\ UNCHANGED <<pIn, pI, pMid, cLog, sLog, exVars, spongeVars>>

\* line 85
FirstHalfArk ==
  /\ pPc = "first_ark"
  /\ pState' = ark(pState, c_c(Len(pState)), FirstHalfOffset(Len(pState), pI))
  /\ ops' = Append(ops, "ark")
  /\ cLog' = cLog \o arkReads(Len(pState), FirstHalfOffset(Len(pState), pI))
  /\ pPc' = "first_mix"
  /\ UNCHANGED <<pIn, pI, pMid, sLog, exVars, spongeVars>>

\* lines 86 and 83 (i++ and the loop test)
FirstHalfMix ==
  /\ pPc = "first_mix"
  /\ pState' = mixWithScratch(pState, c_m(Len(pState)))
  /\ ops' = Append(ops, "mixM")
  /\ pI' = pI + 1
  /\ pPc' = IF pI + 1 < HalfRounds THEN "first_sbox" ELSE "trans_sbox"
  /\ UNCHANGED <<pIn, pMid, cLog, sLog, exVars, spongeVars>>

\* line 88
TransitionSbox ==
  /\ pPc = "trans_sbox"
  /\ pState' = exp5state(pState)
  /\ ops' = Append(ops, "sbox")
  /\ pPc' = "trans_ark"
  /\ UNCHANGED <<pIn, pI, pMid, cLog, sLog, exVars, spongeVars>>

\* line 89
TransitionArk ==
  /\ pPc = "trans_ark"
  /\ pState' = ark(pState, c_c(Len(pState)), TransitionOffset(Len(pState)))
  /\ ops' = Append(ops, "ark")
  /\ cLog' = cLog \o arkReads(Len(pState), TransitionOffset(Len(pState)))
  /\ pPc' = "trans_mix"
  /\ UNCHANGED <<pIn, pI, pMid, sLog, exVars, spongeVars>>

\* lines 90-93
TransitionMix ==
  /\ pPc = "trans_mix"
  /\ pState' = mixWithScratch(pState, c_p(Len(pState)))
  /\ ops' = Append(ops, "mixP")
  /\ pI' = 0
  /\ pPc' = IF 0 < nRoundsP(Len(pState)) THEN "partial"
            ELSE IF 0 < HalfRounds THEN "second_sbox" ELSE "final_sbox"
  /\ UNCHANGED <<pIn, pMid, cLog, sLog, exVars, spongeVars>>

\* lines 94-105, and lines 93 and 108 (i++ and the loop tests)
PartialRoundStep ==
  /\ pPc = "partial"
  /\ pMid' = [i |-> pI, pre |-> pState, s |-> PartialSbox(pState, pI)]
  /\ pState' = PartialRound(pState, pI)
  /\ ops' = Append(ops, "partial")
  /\ cLog' = Append(cLog, PartialCIdx(Len(pState), pI))
  /\ sLog' = sLog \o sparseReads(Len(pState), pI)
  /\ pI' = IF pI + 1 < nRoundsP(Len(pState)) THEN pI + 1 ELSE 0
  /\ pPc' = IF pI + 1 < nRoundsP(Len(pState)) THEN "partial"
            ELSE IF 0 < HalfRounds THEN "second_sbox" ELSE "final_sbox"
  /\ UNCHANGED <<pIn, exVars, spongeVars>>

\* line 109
SecondHalfSbox ==
  /\ pPc = "second_sbox"
  /\ pState' = exp5state(pState)
  /\ ops' = Append(ops, "sbox")
  /\ pPc' = "second_ark"
  /\ UNCHANGED <<pIn, pI, pMid, cLog, sLog, exVars, spongeVars>>

\* line 110
SecondHalfArk ==
  /\ pPc = "second_ark"
  /\ pState' = ark(pState, c_c(Len(pState)), SecondHalfOffset(Len(pState), pI))
  /\ ops' = Append(ops, "ark")
  /\ cLog' = cLog \o arkReads(Len(pState), SecondHalfOffset(Len(pState), pI))
  /\ pPc' = "second_mix"
  /\ UNCHANGED <<pIn, pI, pMid, sLog, exVars, spongeVars>>

\* lines 111 and 108 (i++ and the loop test)
SecondHalfMix ==
  /\ pPc = "second_mix"
  /\ pState' = mixWithScratch(pState, c_m(Len(pState)))
  /\ ops' = Append(ops, "mixM")
  /\ pI' = pI + 1
  /\ pPc' = IF pI + 1 < HalfRounds THEN "second_sbox" ELSE "final_sbox"
  /\ UNCHANGED <<pIn, pMid, cLog, sLog, exVars, spongeVars>>

\* line 113
FinalSbox ==
  /\ pPc = "final_sbox"
  /\ pState' = exp5state(pState)
  /\ ops' = Append(ops, "sbox")
  /\ pPc' = "final_mix"
  /\ UNCHANGED <<pIn, pI, pMid, cLog, sLog, exVars, spongeVars>>

\* lines 114-115
FinalMix ==
  /\ pPc = "final_mix"
  /\ pState' = mixWithScratch(pState, c_m(Len(pState)))
  /\ ops' = Append(ops, "mixM")
  /\ pPc' = "done"
  /\ UNCHANGED <<pIn, pI, pMid, cLog, sLog, exVars, spongeVars>>

PermNext ==
  \/ InitialArk
  \/ FirstHalfSbox \/ FirstHalfArk \/ FirstHalfMix
  \/ TransitionSbox \/ TransitionArk \/ TransitionMix
  \/ PartialRoundStep
  \/ SecondHalfSbox \/ SecondHalfArk \/ SecondHalfMix
  \/ FinalSbox \/ FinalMix

SpecPermute == PermInit /\ [][PermNext]_vars

\* the statement-by-statement run ends in the state hashElements computes
PermAgrees == pPc = "done" => pState = hashElements(pIn)

(***************************************************************************)
(* The fixed-input hashes, one call.                                       *)
(***************************************************************************)
\* input values: seed 0 has one value outside the field, the others none
ElemGen(seed, j, n) ==
  IF seed = 0 THEN (IF j = (n + 1) \div 2 THEN Q + 3 ELSE j % Q)
  ELSE (seed * 31 + 7 * j * j + 3 * j) % Q
ElemInputs(seed, n) == [j \in 1..n |-> ElemGen(seed, j, n)]
InitStates == {0, 7, Q, Q + 2}
NOutsOf(n) == {0, 1, 2, n, n + 1, n + 2}
Apis == {"HashWithStateEx", "HashEx", "HashWithState", "Hash"}

ExInit ==
  /\ \E api \in Apis, n \in 0..(Len(NROUNDSP) + 1), seed \in 0..NumSeeds,
        init \in InitStates :
     \E nOuts \in NOutsOf(n) :
       /\ api \in {"Hash", "HashEx"} => init = 0
       /\ api \in {"Hash", "HashWithState"} => nOuts = 1
       /\ exIn = [inpBI |-> ElemInputs(seed, n), initState |-> init,
                  nOuts |-> nOuts, api |-> api]
  /\ exOut = [done |-> FALSE, out |-> <<>>, err |-> NoErr]
  /\ PermIdle /\ SpongeIdle

CallHashWithStateEx ==
  /\ exIn.api = "HashWithStateEx" /\ ~exOut.done
  /\ LET res == HashWithStateEx(exIn.inpBI, exIn.initState, exIn.nOuts)
     IN exOut' = [done |-> TRUE, out |-> res.out, err |-> res.err]
  /\ UNCHANGED <<exIn, permVars, spongeVars>>

CallHashEx ==
  /\ exIn.api = "HashEx" /\ ~exOut.done
  /\ LET res == HashEx(exIn.inpBI, exIn.nOuts)
     IN exOut' = [done |-> TRUE, out |-> res.out, err |-> res.err]
  /\ UNCHANGED <<exIn, permVars, spongeVars>>

CallHashWithState ==
  /\ exIn.api = "HashWithState" /\ ~exOut.done
  /\ LET res == HashWithState(exIn.inpBI, exIn.initState)
     IN exOut' = [done |-> TRUE, out |-> res.hash, err |-> res.err]
  /\ UNCHANGED <<exIn, permVars, spongeVars>>

CallHash ==
  /\ exIn.api = "Hash" /\ ~exOut.done
  /\ LET res == Hash(exIn.inpBI)
     IN exOut' = [done |-> TRUE, out |-> res.hash, err |-> res.err]
  /\ UNCHANGED <<exIn, permVars, spongeVars>>

ExNext == CallHashWithStateEx \/ CallHashEx \/ CallHashWithState \/ CallHash

SpecHashEx == ExInit /\ [][ExNext]_vars

(***************************************************************************)
(* The sponges, statement by statement: SpongeHashX(inputs, frameSize),    *)
(* then HashBytesX(msg, frameSize), then HashBytesXLessAlloc(msg,          *)
(* frameSize).  The input is either a sequence of values (of at most       *)
(* MaxFrames frames and one value more) and the empty message, or a        *)
(* message (of at most one frame and MaxFrames chunks more) and the values *)
(* of its chunks.                                                          *)
(***************************************************************************)
FrameSizes == 1..(spongeInputs + 1)
ByteGen(j) == (1 + j * j + (j \div spongeChunkSize)) % ByteBase
MsgOf(n) == [j \in 1..n |-> ByteGen(j)]

\* the values of the consecutive chunks of msg, the last one padded on the
\* right with zero bytes
NumChunks(m) == (Len(m) + spongeChunkSize - 1) \div spongeChunkSize
Chunks(m) ==
  [c \in 1..NumChunks(m) |->
     SetBytes([j \in 1..spongeChunkSize |->
                 IF spongeChunkSize * (c - 1) + j <= Len(m)
                 THEN m[spongeChunkSize * (c - 1) + j] ELSE 0])]

SpongeInitState ==
  /\ frameSize \in FrameSizes
  /\ \/ /\ msg = <<>>
        /\ \E n \in 0..(MaxFrames * frameSize + 1), seed \in 0..NumSeeds :
             inputs = ElemInputs(seed, n)
     \/ /\ \E n \in 1..(spongeChunkSize * (frameSize + MaxFrames)) : msg = MsgOf(n)
        /\ inputs = Chunks(msg)
  /\ fn = "SpongeHashX" /\ pc = "enter" /\ i = 0
  /\ loc = SpongeInit(0)
  /\ rets = [SpongeHashX |-> NoRet, HashBytesX |-> NoRet, HashBytesXLessAlloc |-> NoRet]
  /\ PermIdle /\ ExIdle

\* what a function returns, from its locals at the return
RetOf(l) == [done |-> TRUE, hash |-> l.hash, err |-> l.err, perms |-> l.perms,
             stale |-> l.stale]
\* the return of lines 309, 247, 188
RetFrameSize == [done |-> TRUE, hash |-> Nil, err |-> ErrFrameSize, perms |-> 0,
                 stale |-> FALSE]

\* SpongeHashX, lines 308-321
SpongeEnter ==
  /\ fn = "SpongeHashX" /\ pc = "enter"
  /\ IF FrameSizeOk(frameSize)
     THEN /\ loc' = SpongeInit(frameSize)
          /\ pc' = "loop"
          /\ UNCHANGED <<fn, rets>>
     ELSE /\ rets' = [rets EXCEPT !.SpongeHashX = RetFrameSize]
          /\ fn' = "HashBytesX"
          /\ UNCHANGED <<pc, loc>>
  /\ i' = 0
  /\ UNCHANGED <<frameSize, inputs, msg, permVars, exVars>>

\* SpongeHashX, lines 322-340: one iteration
SpongeLoop ==
  /\ fn = "SpongeHashX" /\ pc = "loop"
  /\ loc.err = NoErr /\ i < Len(inputs)
  /\ loc' = SpongeAbsorb(loc, inputs[i + 1], frameSize)
  /\ i' = i + 1
  /\ UNCHANGED <<frameSize, inputs, msg, fn, pc, rets, permVars, exVars>>

\* SpongeHashX, lines 329 and 342-350: the returns
SpongeReturn ==
  /\ fn = "SpongeHashX" /\ pc = "loop"
  /\ ~(loc.err = NoErr /\ i < Len(inputs))
  /\ LET l == SpongeFinish(loc)
     IN loc' = l /\ rets' = [rets EXCEPT !.SpongeHashX = RetOf(l)]
  /\ fn' = "HashBytesX" /\ pc' = "enter" /\ i' = 0
  /\ UNCHANGED <<frameSize, inputs, msg, permVars, exVars>>

\* HashBytesX, lines 246-259
BytesEnter ==
  /\ fn = "HashBytesX" /\ pc = "enter"
  /\ IF FrameSizeOk(frameSize)
     THEN /\ loc' = BytesInit(frameSize)
          /\ pc' = "loop"
          /\ UNCHANGED <<fn, rets>>
     ELSE /\ rets' = [rets EXCEPT !.HashBytesX = RetFrameSize]
          /\ fn' = "HashBytesXLessAlloc"
          /\ UNCHANGED <<pc, loc>>
  /\ i' = 0
  /\ UNCHANGED <<frameSize, inputs, msg, permVars, exVars>>

\* HashBytesX, lines 260-278: one iteration
BytesLoop ==
  /\ fn = "HashBytesX" /\ pc = "loop"
  /\ loc.err = NoErr /\ i < Len(msg) \div spongeChunkSize
  /\ loc' = BytesAbsorb(loc, FullChunk(msg, i), frameSize)
  /\ i' = i + 1
  /\ UNCHANGED <<frameSize, inputs, msg, fn, pc, rets, permVars, exVars>>

\* HashBytesX, lines 280-288
BytesTailStep ==
  /\ fn = "HashBytesX" /\ pc = "loop"
  /\ ~(loc.err = NoErr /\ i < Len(msg) \div spongeChunkSize)
  /\ loc' = IF loc.err = NoErr THEN BytesTail(loc, msg) ELSE loc
  /\ pc' = "finish"
  /\ UNCHANGED <<frameSize, inputs, msg, fn, i, rets, permVars, exVars>>

\* HashBytesX, lines 267 and 290-298: the returns
BytesReturn ==
  /\ fn = "HashBytesX" /\ pc = "finish"
  /\ LET l == BytesFinish(loc)
     IN loc' = l /\ rets' = [rets EXCEPT !.HashBytesX = RetOf(l)]
  /\ fn' = "HashBytesXLessAlloc" /\ pc' = "enter" /\ i' = 0
  /\ UNCHANGED <<frameSize, inputs, msg, permVars, exVars>>

\* HashBytesXLessAlloc, lines 187-201
LessEnter ==
  /\ fn = "HashBytesXLessAlloc" /\ pc = "enter"
  /\ IF FrameSizeOk(frameSize)
     THEN /\ loc' = LessInit(frameSize)
          /\ pc' = "loop"
          /\ UNCHANGED <<fn, rets>>
     ELSE /\ rets' = [rets EXCEPT !.HashBytesXLessAlloc = RetFrameSize]
          /\ fn' = "done"
          /\ UNCHANGED <<pc, loc>>
  /\ i' = 0
  /\ UNCHANGED <<frameSize, inputs, msg, permVars, exVars>>

\* HashBytesXLessAlloc, lines 202-220: one iteration
LessLoop ==
  /\ fn = "HashBytesXLessAlloc" /\ pc = "loop"
  /\ loc.err = NoErr /\ i < Len(msg) \div spongeChunkSize
  /\ loc' = LessAbsorb(loc, FullChunk(msg, i), frameSize)
  /\ i' = i + 1
  /\ UNCHANGED <<frameSize, inputs, msg, fn, pc, rets, permVars, exVars>>

\* HashBytesXLessAlloc, lines 222-229
LessTailStep ==
  /\ fn = "HashBytesXLessAlloc" /\ pc = "loop"
  /\ ~(loc.err = NoErr /\ i < Len(msg) \div spongeChunkSize)
  /\ loc' = IF loc.err = NoErr THEN LessTail(loc, msg) ELSE loc
  /\ pc' = "finish"
  /\ UNCHANGED <<frameSize, inputs, msg, fn, i, rets, permVars, exVars>>

\* HashBytesXLessAlloc, lines 208 and 231-241: the returns
LessReturn ==
  /\ fn = "HashBytesXLessAlloc" /\ pc = "finish"
  /\ LET l == LessFinish(loc)
     IN loc' = l /\ rets' = [rets EXCEPT !.HashBytesXLessAlloc = RetOf(l)]
  /\ fn' = "done" /\ pc' = "enter" /\ i' = 0
  /\ UNCHANGED <<frameSize, inputs, msg, permVars, exVars>>

SpongeNext ==
  \/ SpongeEnter \/ SpongeLoop \/ SpongeReturn
  \/ BytesEnter \/ BytesLoop \/ BytesTailStep \/ BytesReturn
  \/ LessEnter \/ LessLoop \/ LessTailStep \/ LessReturn

SpecSponge == SpongeInitState /\ [][SpongeNext]_vars

Init == PermInit \/ ExInit \/ SpongeInitState
Next == PermNext \/ ExNext \/ SpongeNext
Spec == Init /\ [][Next]_vars

(***************************************************************************)
(* Properties of hashElements (under SpecPermute).                         *)
(***************************************************************************)
\* n copies of the sequence q, one after the other
Repeat(n, q) == [idx \in 1..(n * Len(q)) |-> q[((idx - 1) % Len(q)) + 1]]
IsPrefix(p, q) == Len(p) <= Len(q) /\ \A idx \in 1..Len(p) : p[idx] = q[idx]
\* the round schedule for width t, as documented
Schedule(t) ==
  <<"ark">> \o Repeat(3, <<"sbox", "ark", "mixM">>) \o <<"sbox", "ark", "mixP">>
  \o Repeat(NROUNDSP[t - 1], <<"partial">>) \o Repeat(3, <<"sbox", "ark", "mixM">>)
  \o <<"sbox", "mixM">>
JustDidPartial == pPc # "idle" /\ Len(ops) > 0 /\ ops[Len(ops)] = "partial"

\* C8: in one call of hashElements on a state of width t the operations come
\* in the order: ARK; 3 x (S-box, ARK, mix M); (S-box, ARK, mix P);
\* NROUNDSP[t-2] partial rounds, whose S-box changes slot 0 only;
\* 3 x (S-box, ARK, mix M); (S-box, mix M); so 8 full S-box layers.
C8_RoundSchedule ==
  pPc # "idle" =>
    /\ IsPrefix(ops, Schedule(Len(pIn)))
    /\ pPc = "done" =>
         /\ ops = Schedule(Len(pIn))
         /\ Cardinality({idx \in 1..Len(ops) : ops[idx] = "sbox"}) = 8
         /\ Cardinality({idx \in 1..Len(ops) : ops[idx] = "partial"})
              = NROUNDSP[Len(pIn) - 1]
    /\ JustDidPartial =>
         \A k \in 1..(Len(pIn) - 1) : pMid.s[k + 1] = pMid.pre[k + 1]
C8_Witness ==
  /\ pPc = "done" /\ Len(pIn) = 17
  /\ ops = Schedule(17) /\ Len(ops) = 13 + 68 + 9 + 2

\* the sum over j in 0..n-1 of S[(2t-1)r + j] * s[j]
RECURSIVE C9_Row(_, _, _, _)
C9_Row(s, t, r, n) ==
  IF n = 0 THEN 0
  ELSE (C9_Row(s, t, r, n - 1) + c_s(t)[(2 * t - 1) * r + n - 1] * s[n]) % Q

\* C9: after partial round i, with s the state right after the S-box and
\* the round constant on slot 0: state[0] = sum_j S[(2t-1)i+j]*s[j] and, for
\* k in 1..t-1, state[k] = s[k] + s[0]*S[(2t-1)i+t+k-1] (the old s[0]).
C9_PartialRoundPreUpdate ==
  JustDidPartial =>
    LET t == Len(pIn)
        r == pMid.i
        s == pMid.s
    IN /\ s[1] = (exp5(pMid.pre[1]) + c_c(t)[5 * t + r]) % Q
       /\ pState[1] = C9_Row(s, t, r, t)
       /\ \A k \in 1..(t - 1) :
            pState[k + 1] = (s[k + 1] + s[1] * c_s(t)[(2 * t - 1) * r + t + k - 1]) % Q
C9_Witness ==
  /\ JustDidPartial /\ Len(pIn) = 17 /\ pMid.i = 67
  /\ pMid.s[1] # C9_Row(pMid.s, 17, 67, 17)
  /\ pState[1] = C9_Row(pMid.s, 17, 67, 17)

\* C10: for width t and P = NROUNDSP[t-2], the call reads the indices
\* 0..8t+P-1 of C and 0..(2t-1)P-1 of S, each once and in increasing order,
\* so within a C of length 9t+P and an S of length (2t-1)P.
C10_TableReads ==
  pPc # "idle" =>
    LET t == Len(pIn)
        P == NROUNDSP[t - 1]
    IN /\ \A idx \in 1..Len(cLog) : cLog[idx] = idx - 1 /\ cLog[idx] < 9 * t + P
       /\ \A idx \in 1..Len(sLog) : sLog[idx] = idx - 1 /\ sLog[idx] < (2 * t - 1) * P
       /\ pPc = "done" => Len(cLog) = 8 * t + P /\ Len(sLog) = (2 * t - 1) * P
C10_Witness ==
  /\ pPc = "done" /\ Len(pIn) = 17
  /\ Len(cLog) = 8 * 17 + 68 /\ cLog[Len(cLog)] = 8 * 17 + 67
  /\ Len(sLog) = 33 * 68 /\ sLog[Len(sLog)] = 33 * 68 - 1

(***************************************************************************)
(* Properties of the fixed-input hashes (under SpecHashEx).                *)
(***************************************************************************)
\* C5: HashWithStateEx(inputs, initState, nOuts) returns an error exactly
\* when |inputs| is 0 or more than 16, or an input is >= p, or nOuts < 1 or
\* nOuts > |inputs|+1, or initState >= p; each kind of error only with its
\* precondition violated; otherwise no error and exactly nOuts values, the
\* slots 0..nOuts-1 of the state after one permutation.
C5_Errors ==
  exOut.done =>
    LET n == Len(exIn.inpBI)
        lenBad == n = 0 \/ n > 16
        inBad == \E j \in 1..n : exIn.inpBI[j] >= Q
        nOutsBad == exIn.nOuts < 1 \/ exIn.nOuts > n + 1
        initBad == exIn.initState >= Q
    IN /\ exOut.err # NoErr <=> (lenBad \/ inBad \/ nOutsBad \/ initBad)
       /\ exOut.err = ErrInputsLength => lenBad
       /\ exOut.err = ErrInputsNotInField => inBad
       /\ exOut.err = ErrNOuts => nOutsBad
       /\ exOut.err = ErrInitState => initBad
       /\ exOut.err # NoErr => exOut.out = <<>>
       /\ exOut.err = NoErr =>
            /\ Len(exOut.out) = exIn.nOuts
            /\ exOut.out = SubSeq(hashElements(<<exIn.initState>> \o exIn.inpBI),
                                  1, exIn.nOuts)
C5_Witness ==
  /\ exOut.done /\ exIn.api = "HashWithStateEx"
  /\ Len(exIn.inpBI) = 16 /\ exIn.nOuts = 17 /\ exIn.initState = 7
  /\ exOut.err = NoErr /\ Len(exOut.out) = 17

(***************************************************************************)
(* Properties of the sponges (under SpecSponge).                           *)
(***************************************************************************)
\* x padded on the right with zeros to length n
PadRight(x, n) == [j \in 1..n |-> IF j <= Len(x) THEN x[j] ELSE 0]
InField(x) == \A j \in 1..Len(x) : x[j] < Q
ValidFrameSize == frameSize \in 2..16
\* SpongeHashX has just returned
SpongeReturned == fn = "HashBytesX" /\ pc = "enter" /\ rets.SpongeHashX.done
\* HashBytesX has just returned
BytesReturned == fn = "HashBytesXLessAlloc" /\ pc = "enter" /\ rets.HashBytesX.done

\* C1: for F in 2..16 and in-field x with 0 < |x| <= F-1, SpongeHashX(x, F)
\* returns the digest Hash returns for x padded on the right with zeros to
\* length F, after exactly one permutation.
C1_SingleFrame ==
  (SpongeReturned /\ ValidFrameSize /\ InField(inputs)
     /\ 0 < Len(inputs) /\ Len(inputs) <= frameSize - 1) =>
    /\ rets.SpongeHashX.err = NoErr
    /\ rets.SpongeHashX.hash # Nil
    /\ rets.SpongeHashX.hash = Hash(PadRight(inputs, frameSize)).hash
    /\ rets.SpongeHashX.perms = 1
C1_Witness ==
  /\ SpongeReturned /\ frameSize = 16 /\ Len(inputs) = 15 /\ InField(inputs)
  /\ rets.SpongeHashX.hash = Hash(PadRight(inputs, 16)).hash
  /\ rets.SpongeHashX.perms = 1

TwoBlocks ==
  SpongeReturned /\ ValidFrameSize /\ InField(inputs)
    /\ Len(inputs) = 2 * frameSize
BlockA == SubSeq(inputs, 1, frameSize)
BlockB == SubSeq(inputs, frameSize + 1, 2 * frameSize)

\* C2 (as amended): for blocks a and b of F in-field elements each,
\* SpongeHashX(a ++ b, F) = Hash(<<h2, b[F], 0, ..., 0>>) where
\* h2 = Hash(<<Hash(a), b[1], ..., b[F-1]>>): the frame that starts as
\* (Hash(a), 0, ..., 0) takes the FIRST F-1 elements of b, is hashed, and the
\* last element of b goes to slot 1 of a third frame.
C2_Chaining ==
  TwoBlocks =>
    LET h1 == Hash(BlockA).hash
        h2 == Hash(h1 \o SubSeq(BlockB, 1, frameSize - 1)).hash
        h3 == Hash(h2 \o <<BlockB[frameSize]>> \o Zeros(frameSize - 2)).hash
    IN /\ rets.SpongeHashX.err = NoErr
       /\ rets.SpongeHashX.hash = h3
       /\ rets.SpongeHashX.perms = 3
C2_Witness ==
  /\ TwoBlocks /\ frameSize = 16 /\ Len(inputs) = 32
  /\ rets.SpongeHashX.perms = 3 /\ rets.SpongeHashX.hash # Nil
\* C2 as stated: SpongeHashX(a ++ b, F) is one Hash over the frame that
\* starts as (Hash(a), 0, ..., 0) with slots 1..F-1 overwritten by the last
\* F-1 elements of b.
C2_AsStated ==
  TwoBlocks =>
    rets.SpongeHashX.hash =
      Hash(Hash(BlockA).hash \o SubSeq(BlockB, 2, frameSize)).hash

\* C3: for a non-empty message m and F in 2..16, HashBytesX(m, F) returns
\* what SpongeHashX(chunks(m), F) returns, chunks(m) being the big-endian
\* integers of the consecutive chunks of m, the short last chunk padded on
\* the right with zero bytes and no chunk added to a whole number of chunks.
C3_BytesIsSpongeOfChunks ==
  (BytesReturned /\ ValidFrameSize /\ msg # <<>> /\ inputs = Chunks(msg)) =>
    /\ rets.SpongeHashX.err = NoErr /\ rets.HashBytesX.err = NoErr
    /\ rets.HashBytesX.hash # Nil
    /\ rets.HashBytesX.hash = rets.SpongeHashX.hash
    /\ rets.HashBytesX.perms = rets.SpongeHashX.perms
C3_Witness ==
  /\ BytesReturned /\ frameSize = 16 /\ inputs = Chunks(msg)
  /\ Len(msg) = spongeChunkSize * (frameSize - 1) + 1
  /\ rets.HashBytesX.hash = rets.SpongeHashX.hash /\ rets.HashBytesX.perms = 1

\* C4: for every message and F in 2..16, HashBytesXLessAlloc(msg, F)
\* returns the fixed-width big-endian bytes of the digest HashBytesX(msg, F)
\* returns.
C4_LessAllocIsBytesX ==
  (fn = "done" /\ ValidFrameSize /\ msg # <<>>) =>
    /\ rets.HashBytesXLessAlloc.err = NoErr
    /\ rets.HashBytesXLessAlloc.hash = Bytes(rets.HashBytesX.hash[1])
    /\ rets.HashBytesXLessAlloc.perms = rets.HashBytesX.perms

EmptyRet == [done |-> TRUE, hash |-> Nil, err |-> NoErr, perms |-> 0, stale |-> FALSE]
\* C6: for F in 2..16, SpongeHashX of no inputs and HashBytesX of the empty
\* message run no permutation and return no error and a nil digest.
C6_EmptyInput ==
  /\ (rets.SpongeHashX.done /\ ValidFrameSize /\ inputs = <<>>) =>
       rets.SpongeHashX = EmptyRet
  /\ (rets.HashBytesX.done /\ ValidFrameSize /\ msg = <<>>) =>
       rets.HashBytesX = EmptyRet
C6_Witness ==
  /\ fn = "done" /\ frameSize = 16 /\ inputs = <<>> /\ msg = <<>>
  /\ rets.SpongeHashX.hash = Nil /\ rets.SpongeHashX.err = NoErr
  /\ rets.HashBytesX.hash = Nil /\ rets.HashBytesX.err = NoErr

NonEmptyInputOf(f) == IF f = "SpongeHashX" THEN inputs # <<>> ELSE msg # <<>>
\* C7: in SpongeHashX, HashBytesX and HashBytesXLessAlloc every write of a
\* value or chunk into the frame sets dirty, so for a non-empty input the
\* digest returned comes from a permutation run after the last frame write.
C7_WritesSetDirty ==
  /\ (fn # "done" /\ pc # "enter" /\ loc.err = NoErr) => (loc.stale => loc.dirty)
  /\ \A f \in {"SpongeHashX", "HashBytesX", "HashBytesXLessAlloc"} :
       (rets[f].done /\ rets[f].err = NoErr /\ ValidFrameSize /\ NonEmptyInputOf(f)) =>
         ~rets[f].stale /\ rets[f].perms >= 1

====
